---- MODULE Spec2Model ----
(***************************************************************************)
(* PLYtoOBJ: readPLY (header parser + payload decoder), writeOBJ (mesh     *)
(* encoder) and main, modelled from src/PLYtoOBJ/PLYtoOBJ.cpp.             *)
(*                                                                         *)
(* Representation of values:                                               *)
(*  - a byte is a number 0..255; the binary payload is a sequence of bytes *)
(*  - a float (float32) is the sequence of its 4 IEEE-754 bytes, most      *)
(*    significant first; the object in memory is that sequence on a        *)
(*    big-endian host and its reverse on a little-endian host              *)
(*  - an int is a number in -2^31 .. 2^31-1                                *)
(*  - an ASCII payload is a sequence of lines, a line a sequence of        *)
(*    tokens, a token <<kind, n>>: <<"int", n>> the literal n,             *)
(*    <<"dec", d>> the literal 0.d, <<"bad", 0>> a non-numeric word,       *)
(*    <<"big", 0>> a numeric literal out of every range                    *)
(*  - an OBJ document is a sequence of lines, a line the sequence of its   *)
(*    blank-separated words (strings)                                      *)
(***************************************************************************)
EXTENDS Integers, Sequences, FiniteSets, TLC

VARIABLES
    input,        \* the parameters the input file was generated from
    argc,         \* main's argc
    file,         \* the PLY file at plyPath: [exists, hdr, body]
    systemIsLE,   \* isSystemLittleEndian() of the host
    pc,           \* main's position
    rd,           \* readPLY's frame: its locals, its out-parameters, the stream cursor
    read_success, \* main's read_success
    write_success,\* main's write_success
    objFile,      \* the file at objPath: [touched, lines]
    exitCode      \* main's return value, -1 while running

vars == <<input, argc, file, systemIsLE, pc, rd, read_success, write_success, objFile, exitCode>>

(***************************************************************************)
(* Bounds of the model.                                                    *)
(***************************************************************************)
MaxVerts == 2
MaxFaces == 2
MaxPoly == 5
MaxTrunc == 3

(***************************************************************************)
(* Bytes and numbers.                                                      *)
(***************************************************************************)
Reverse(s) == [k \in 1..Len(s) |-> s[Len(s) + 1 - k]]

RECURSIVE Pow2(_)
Pow2(k) == IF k = 0 THEN 1 ELSE 2 * Pow2(k - 1)

\* the first n elements of s / s without them
Take(s, n) == SubSeq(s, 1, IF n < Len(s) THEN n ELSE Len(s))
Drop(s, n) == SubSeq(s, n + 1, Len(s))

RECURSIVE Flatten(_)
Flatten(ss) == IF ss = <<>> THEN <<>> ELSE Head(ss) \o Flatten(Tail(ss))

\* the unsigned number of a byte sequence given most significant first (at most 3 bytes here)
RECURSIVE Unsigned(_)
Unsigned(msb) ==
    IF msb = <<>> THEN 0 ELSE Unsigned(SubSeq(msb, 1, Len(msb) - 1)) * 256 + msb[Len(msb)]

\* a 4-byte value, most significant first, as a two's complement int
ToInt32(msb) ==
    (IF msb[1] >= 128 THEN msb[1] - 256 ELSE msb[1]) * 16777216 + Unsigned(SubSeq(msb, 2, 4))

\* a 2-byte value, most significant first, as int16_t
ToInt16(msb) ==
    (IF msb[1] >= 128 THEN msb[1] - 256 ELSE msb[1]) * 256 + msb[2]

\* the w bytes of the number n >= 0, most significant first
RECURSIVE BytesOf(_, _)
BytesOf(n, w) == IF w = 0 THEN <<>> ELSE BytesOf(n \div 256, w - 1) \o <<n % 256>>

(***************************************************************************)
(* float32 arithmetic: the correctly rounded quotient a / b of two         *)
(* non-negative integers (b > 0), as IEEE-754 single bytes.  F32Div(n, 1)  *)
(* is the float of the integer n, F32Div(c, 255) is c / 255.0f.            *)
(***************************************************************************)
ZeroF == <<0, 0, 0, 0>>

RECURSIVE NormExp(_, _)
NormExp(a, b) ==
    IF a >= 2 * b THEN 1 + NormExp(a, 2 * b)
    ELSE IF a < b THEN NormExp(2 * a, b) - 1
    ELSE 0

RECURSIVE NormNum(_, _)
NormNum(a, b) ==
    IF a >= 2 * b THEN NormNum(a, 2 * b)
    ELSE IF a < b THEN NormNum(2 * a, b)
    ELSE a

RECURSIVE NormDen(_, _)
NormDen(a, b) ==
    IF a >= 2 * b THEN NormDen(a, 2 * b)
    ELSE IF a < b THEN NormDen(2 * a, b)
    ELSE b

\* k more quotient bits of r / b: <<quotient, remainder>>
RECURSIVE LongDiv(_, _, _, _)
LongDiv(r, b, k, q) ==
    IF k = 0 THEN <<q, r>>
    ELSE IF 2 * r >= b THEN LongDiv(2 * r - b, b, k - 1, 2 * q + 1)
    ELSE LongDiv(2 * r, b, k - 1, 2 * q)

F32Div(a, b) ==
    IF a = 0 THEN ZeroF
    ELSE LET e  == NormExp(a, b)
             an == NormNum(a, b)
             bn == NormDen(a, b)
             qr == LongDiv(an - bn, bn, 23, 1)
             up == (2 * qr[2] > bn) \/ (2 * qr[2] = bn /\ qr[1] % 2 = 1)
             m0 == IF up THEN qr[1] + 1 ELSE qr[1]
             E  == IF m0 = 16777216 THEN e + 128 ELSE e + 127
             m  == IF m0 = 16777216 THEN 0 ELSE m0 - 8388608
         IN <<E \div 2, (E % 2) * 128 + m \div 65536, (m \div 256) % 256, m % 256>>

\* the 8 IEEE-754 double bytes of the integer 0 <= n < 2^20, most significant first
F64OfInt(n) ==
    IF n = 0 THEN <<0, 0, 0, 0, 0, 0, 0, 0>>
    ELSE LET e == NormExp(n, 1)
             E == 1023 + e
             m == (n - Pow2(e)) * Pow2(20 - e)
         IN <<E \div 16, (E % 16) * 16 + m \div 65536, (m \div 256) % 256, m % 256, 0, 0, 0, 0>>

(***************************************************************************)
(* Data model: Vec3 / Vec2 / Vertex / Triangle / PlyProperty.              *)
(***************************************************************************)
Vec3(x, y, z) == <<x, y, z>>
Vec2(u, v) == <<u, v>>

\* a default-constructed Vertex
Vertex ==
    [position |-> Vec3(ZeroF, ZeroF, ZeroF), normal |-> Vec3(ZeroF, ZeroF, ZeroF),
     color |-> Vec3(ZeroF, ZeroF, ZeroF), texCoord |-> Vec2(ZeroF, ZeroF),
     has_normal |-> FALSE, has_color |-> FALSE, has_texCoord |-> FALSE]

Triangle(a, b, c) == [v0 |-> a, v1 |-> b, v2 |-> c]

\* a default-constructed PlyProperty
PlyProperty ==
    [name |-> "", type_str |-> "", is_list |-> FALSE, count_type_str |-> "",
     list_item_type_str |-> "", index_in_line |-> -1]

(***************************************************************************)
(* readBinary<T>: sizeof(T) bytes from the cursor p, byte-swapped when the *)
(* file's order differs from the host's.  value is the value read, most    *)
(* significant byte first.  A short read fails.                            *)
(***************************************************************************)
swapBytes(mem) == Reverse(mem)

readBinary(bytes, p, size, fileIsLittleEndian, systemIsLittleEndian) ==
    IF p + size > Len(bytes)
    THEN [ok |-> FALSE, value |-> <<>>, pos |-> p]
    ELSE LET mem    == SubSeq(bytes, p + 1, p + size)
             stored == IF fileIsLittleEndian # systemIsLittleEndian THEN swapBytes(mem) ELSE mem
         IN [ok |-> TRUE,
             value |-> IF systemIsLittleEndian THEN Reverse(stored) ELSE stored,
             pos |-> p + size]

\* readBinaryColorComponent: one unsigned char, scaled by 1 / 255.0f
readBinaryColorComponent(bytes, p, fileIsLittleEndian, systemIsLittleEndian) ==
    LET r == readBinary(bytes, p, 1, fileIsLittleEndian, systemIsLittleEndian)
    IN IF r.ok THEN [ok |-> TRUE, value |-> F32Div(r.value[1], 255), pos |-> r.pos]
       ELSE [ok |-> FALSE, value |-> ZeroF, pos |-> r.pos]

\* file.seekg(n, ios_base::cur): the cursor moves n bytes on, also past the end of the
\* file (a forward seek of a file stream does not fail)
seekg(p, n) == p + n

(***************************************************************************)
(* readPLY: the header loop.                                               *)
(***************************************************************************)
\* the k-th word of a header line, "" when the line has fewer words (a failed >> leaves
\* the string empty)
Tok(line, k) == IF k <= Len(line) THEN line[k] ELSE ""
\* the k-th word of a header line read as a count, 0 when the line has fewer words
Count(line, k) == IF k <= Len(line) THEN line[k] ELSE 0

NormalNames == {"nx", "ny", "nz"}
ColorNames == {"red", "green", "blue", "alpha"}
TexCoordNames == {"u", "v", "s", "t", "texture_u", "texture_v"}
FaceIndexNames == {"vertex_indices", "vertex_index"}

\* the frame of readPLY on entry, with the stream opened
readPLYEntry ==
    [at |-> "header", hline |-> 0,
     vertexCount |-> 0, faceCount |-> 0, headerEnd |-> FALSE, isASCII |-> TRUE,
     plyFileIsLittleEndian |-> FALSE, vertexProperties |-> <<>>,
     faceProperty |-> PlyProperty, facePropertyDefined |-> FALSE,
     currentPropertyIndexASCII |-> 0, currentElement |-> "",
     file_has_normals |-> FALSE, file_has_colors |-> FALSE, file_has_texCoords |-> FALSE,
     pos |-> 0, i |-> 0, vertices_out |-> <<>>, triangles_out |-> <<>>]

\* the "format" line
HeaderFormat(r, line) ==
    LET format_str == Tok(line, 2)
    IN IF format_str = "ascii" THEN [r EXCEPT !.isASCII = TRUE]
       ELSE IF format_str = "binary_little_endian"
            THEN [r EXCEPT !.isASCII = FALSE, !.plyFileIsLittleEndian = TRUE]
       ELSE IF format_str = "binary_big_endian"
            THEN [r EXCEPT !.isASCII = FALSE, !.plyFileIsLittleEndian = FALSE]
       ELSE [r EXCEPT !.at = "return_false"]

\* the "element" line
HeaderElement(r, line) ==
    LET el == Tok(line, 2)
    IN [r EXCEPT !.currentElement = el,
                 !.vertexCount = IF el = "vertex" THEN Count(line, 3) ELSE @,
                 !.faceCount = IF el = "face" THEN Count(line, 3) ELSE @,
                 !.currentPropertyIndexASCII = 0]

\* mutant: the declared names do not seed the mesh-level flags
HeaderProperty_noSeed(r, line) ==
    LET isList == Tok(line, 2) = "list"
        prop == IF isList
                THEN [PlyProperty EXCEPT !.is_list = TRUE, !.count_type_str = Tok(line, 3),
                                         !.list_item_type_str = Tok(line, 4),
                                         !.name = Tok(line, 5)]
                ELSE [PlyProperty EXCEPT !.type_str = Tok(line, 2), !.name = Tok(line, 3)]
    IN IF r.currentElement = "vertex"
       THEN [r EXCEPT
               !.vertexProperties =
                   Append(@, [prop EXCEPT !.index_in_line = r.currentPropertyIndexASCII]),
               !.currentPropertyIndexASCII = @ + 1]
       ELSE IF r.currentElement = "face" /\ prop.name \in FaceIndexNames
       THEN [r EXCEPT !.faceProperty = prop, !.facePropertyDefined = TRUE]
       ELSE r

\* the "property" line
HeaderProperty(r, line) ==
    LET isList == Tok(line, 2) = "list"
        prop == IF isList
                THEN [PlyProperty EXCEPT !.is_list = TRUE, !.count_type_str = Tok(line, 3),
                                         !.list_item_type_str = Tok(line, 4),
                                         !.name = Tok(line, 5)]
                ELSE [PlyProperty EXCEPT !.type_str = Tok(line, 2), !.name = Tok(line, 3)]
    IN IF r.currentElement = "vertex"
       THEN [r EXCEPT
               !.vertexProperties =
                   Append(@, [prop EXCEPT !.index_in_line = r.currentPropertyIndexASCII]),
               !.currentPropertyIndexASCII = @ + 1,
               !.file_has_normals = @ \/ prop.name \in NormalNames,
               !.file_has_colors = @ \/ prop.name \in ColorNames,
               !.file_has_texCoords = @ \/ prop.name \in TexCoordNames]
       ELSE IF r.currentElement = "face" /\ prop.name \in FaceIndexNames
       THEN [r EXCEPT !.faceProperty = prop, !.facePropertyDefined = TRUE]
       ELSE r

\* one iteration of the header loop on the line just read
HeaderLine(r, line) ==
    LET r1 == [r EXCEPT !.hline = @ + 1]
        token == Tok(line, 1)
    IN IF Len(line) = 0 \/ token = "comment" \/ token = "ply" THEN r1
       ELSE IF token = "format" THEN HeaderFormat(r1, line)
       ELSE IF token = "element" THEN HeaderElement(r1, line)
       ELSE IF token = "property" THEN HeaderProperty(r1, line)
       ELSE IF token = "end_header" THEN [r1 EXCEPT !.headerEnd = TRUE]
       ELSE r1

RECURSIVE Resize(_)
Resize(n) == IF n <= 0 THEN <<>> ELSE Append(Resize(n - 1), Vertex)

\* mutant: the face element's index-list property is not asked for
HeaderCheck_noFaceCheck(r) ==
    IF ~r.headerEnd THEN [r EXCEPT !.at = "return_false"]
    ELSE [r EXCEPT !.at = "vertices", !.i = 0, !.pos = 0,
                   !.vertices_out = Resize(r.vertexCount)]

\* after the header loop: the two header checks, then vertices_out.resize(vertexCount)
HeaderCheck(r) ==
    IF ~r.headerEnd THEN [r EXCEPT !.at = "return_false"]
    ELSE IF r.faceCount > 0 /\ ~r.facePropertyDefined THEN [r EXCEPT !.at = "return_false"]
    ELSE [r EXCEPT !.at = "vertices", !.i = 0, !.pos = 0,
                   !.vertices_out = Resize(r.vertexCount)]

(***************************************************************************)
(* readPLY: one vertex record.                                             *)
(***************************************************************************)
AsciiFloatTypes == {"float", "float32", "double", "float64"}
AsciiCharTypes == {"uchar", "uint8", "char", "int8"}

\* std::stof / std::stoi on a token: does it throw, and what it returns otherwise
stofThrows(tok) == tok[1] \in {"bad", "big"}
stof(tok) == IF tok[1] = "int" THEN F32Div(tok[2], 1) ELSE F32Div(tok[2], 10)
stoiThrows(tok) == tok[1] \in {"bad", "big"}
stoi(tok) == IF tok[1] = "int" THEN tok[2] ELSE 0

\* the assignment of a decoded component to the field the property's name selects
\* (colorVal is what a red/green/blue property stores, val what every other one does)
StoreComponent(v, name, val, colorVal) ==
    IF name = "x" THEN [v EXCEPT !.position[1] = val]
    ELSE IF name = "y" THEN [v EXCEPT !.position[2] = val]
    ELSE IF name = "z" THEN [v EXCEPT !.position[3] = val]
    ELSE IF name = "nx" THEN [v EXCEPT !.normal[1] = val, !.has_normal = TRUE]
    ELSE IF name = "ny" THEN [v EXCEPT !.normal[2] = val, !.has_normal = TRUE]
    ELSE IF name = "nz" THEN [v EXCEPT !.normal[3] = val, !.has_normal = TRUE]
    ELSE IF name = "red" THEN [v EXCEPT !.color[1] = colorVal, !.has_color = TRUE]
    ELSE IF name = "green" THEN [v EXCEPT !.color[2] = colorVal, !.has_color = TRUE]
    ELSE IF name = "blue" THEN [v EXCEPT !.color[3] = colorVal, !.has_color = TRUE]
    ELSE IF name \in {"u", "texture_u", "s"} THEN [v EXCEPT !.texCoord[1] = val, !.has_texCoord = TRUE]
    ELSE IF name \in {"v", "texture_v", "t"} THEN [v EXCEPT !.texCoord[2] = val, !.has_texCoord = TRUE]
    ELSE v

\* mutant: the token is taken one column to the right of the property's
AsciiVertexProperty_nextColumn(v, prop, values_str) ==
    IF prop.index_in_line + 1 >= Len(values_str) THEN v
    ELSE StoreComponent(v, prop.name, stof(values_str[prop.index_in_line + 2]),
                        stof(values_str[prop.index_in_line + 2]))

\* ASCII: one property of the vertex line split into values_str
AsciiVertexProperty(v, prop, values_str) ==
    IF prop.index_in_line >= Len(values_str) THEN v
    ELSE LET str_val == values_str[prop.index_in_line + 1]
             isF == prop.type_str \in AsciiFloatTypes
             isC == ~isF /\ prop.type_str \in AsciiCharTypes
             f_val == IF isF /\ ~stofThrows(str_val) THEN stof(str_val) ELSE ZeroF
             uc_val == IF isC /\ ~stoiThrows(str_val) THEN stoi(str_val) % 256 ELSE 0
         IN IF (isF /\ stofThrows(str_val)) \/ (isC /\ stoiThrows(str_val)) THEN v
            ELSE StoreComponent(v, prop.name, f_val,
                                IF prop.type_str \in {"uchar", "uint8"}
                                THEN F32Div(uc_val, 255) ELSE f_val)

RECURSIVE AsciiVertexProperties(_, _, _)
AsciiVertexProperties(v, props, values_str) ==
    IF props = <<>> THEN v
    ELSE AsciiVertexProperties(AsciiVertexProperty(v, Head(props), values_str),
                               Tail(props), values_str)

\* ASCII: vertex i of vertexCount from the line at the cursor
AsciiVertex(r, lines) ==
    IF r.pos >= Len(lines) THEN [r EXCEPT !.at = "return_false"]
    ELSE LET line == lines[r.pos + 1]
             r1 == [r EXCEPT !.pos = @ + 1]
         IN IF Len(line) = 0 /\ r.i < r.vertexCount - 1 THEN [r1 EXCEPT !.at = "return_false"]
            ELSE IF Len(line) = 0 THEN [r1 EXCEPT !.i = @ + 1]
            ELSE [r1 EXCEPT !.i = @ + 1,
                            !.vertices_out[r.i + 1] =
                                AsciiVertexProperties(Vertex, r.vertexProperties, line)]

\* binary: the byte width by which an unrecognised property is skipped, 0 for a type
\* that is none of the scalar types
SkipTypeSize(type_str) ==
    IF type_str \in {"char", "int8", "uchar", "uint8"} THEN 1
    ELSE IF type_str \in {"short", "int16", "ushort", "uint16"} THEN 2
    ELSE IF type_str \in {"int", "int32", "uint", "uint32", "float", "float32"} THEN 4
    ELSE IF type_str \in {"double", "float64"} THEN 8
    ELSE 0

FloatFieldNames ==
    {"x", "y", "z", "nx", "ny", "nz", "u", "texture_u", "s", "v", "texture_v", "t"}

\* binary: the read a property performs at cursor p, [ok, value, pos]
BinaryPropertyRead(prop, bytes, p, fileLE, sysLE) ==
    IF prop.name \in FloatFieldNames THEN readBinary(bytes, p, 4, fileLE, sysLE)
    ELSE IF prop.name \in {"red", "green", "blue"}
         THEN readBinaryColorComponent(bytes, p, fileLE, sysLE)
    ELSE IF prop.name = "alpha" THEN readBinary(bytes, p, 1, fileLE, sysLE)
    ELSE [ok |-> TRUE, value |-> ZeroF, pos |-> seekg(p, SkipTypeSize(prop.type_str))]

\* binary: the properties of one vertex in declared order, [ok, v, pos]
RECURSIVE BinaryVertexProperties(_, _, _, _, _, _)
BinaryVertexProperties(v, props, bytes, p, fileLE, sysLE) ==
    IF props = <<>> THEN [ok |-> TRUE, v |-> v, pos |-> p]
    ELSE LET got == BinaryPropertyRead(Head(props), bytes, p, fileLE, sysLE)
         IN IF ~got.ok THEN [ok |-> FALSE, v |-> v, pos |-> got.pos]
            ELSE BinaryVertexProperties(
                     StoreComponent(v, Head(props).name, got.value, got.value),
                     Tail(props), bytes, got.pos, fileLE, sysLE)

BinaryVertex(r, bytes, sysLE) ==
    LET got == BinaryVertexProperties(Vertex, r.vertexProperties, bytes, r.pos,
                                      r.plyFileIsLittleEndian, sysLE)
    IN IF ~got.ok THEN [r EXCEPT !.at = "return_false", !.pos = got.pos]
       ELSE [r EXCEPT !.pos = got.pos, !.i = @ + 1, !.vertices_out[r.i + 1] = got.v]

\* one iteration of the vertex loop
ReadVertex(r, body, sysLE) ==
    IF r.isASCII THEN AsciiVertex(r, body) ELSE BinaryVertex(r, body, sysLE)

\* after the vertex loop: the mesh-level flags take up the per-vertex flags
MeshFlags(r) ==
    [r EXCEPT
       !.file_has_normals = @ \/ \E k \in 1..Len(r.vertices_out) : r.vertices_out[k].has_normal,
       !.file_has_colors = @ \/ \E k \in 1..Len(r.vertices_out) : r.vertices_out[k].has_color,
       !.file_has_texCoords = @ \/ \E k \in 1..Len(r.vertices_out) : r.vertices_out[k].has_texCoord,
       !.at = "faces", !.i = 0]

(***************************************************************************)
(* readPLY: one face record.                                               *)
(***************************************************************************)
\* the triangles pushed for a face of n >= 3 indices: one for n = 3, a fan for n > 3
RECURSIVE Fan(_, _)
Fan(indices, j) ==
    IF j >= Len(indices) THEN <<>>
    ELSE <<Triangle(indices[1], indices[j], indices[j + 1])>> \o Fan(indices, j + 1)

\* mutant: a strip (ij-1, ij, ij+1) instead of a fan around the first index
Triangulate_strip(indices) ==
    [j \in 1..(Len(indices) - 2) |-> Triangle(indices[j], indices[j + 1], indices[j + 2])]

Triangulate(indices) ==
    IF Len(indices) = 3 THEN <<Triangle(indices[1], indices[2], indices[3])>>
    ELSE IF Len(indices) > 3 THEN Fan(indices, 2)
    ELSE <<>>

\* the ints that successive "iss >> int" extract from a line, up to the first failure
\* (a literal 0.d yields 0 and leaves the stream at ".d", where the next >> fails)
RECURSIVE ExtractInts(_)
ExtractInts(line) ==
    IF line = <<>> THEN <<>>
    ELSE IF Head(line)[1] = "int" THEN <<Head(line)[2]>> \o ExtractInts(Tail(line))
    ELSE IF Head(line)[1] = "dec" THEN <<0>>
    ELSE <<>>

\* ASCII: face i of faceCount from the line at the cursor
AsciiFace(r, lines) ==
    IF r.pos >= Len(lines) THEN [r EXCEPT !.at = "return_false"]
    ELSE LET line == lines[r.pos + 1]
             r1 == [r EXCEPT !.pos = @ + 1]
             ints == ExtractInts(line)
             numFaceVertices == IF ints = <<>> THEN 0 ELSE ints[1]
         IN IF Len(line) = 0 /\ r.i < r.faceCount - 1 THEN [r1 EXCEPT !.at = "return_false"]
            ELSE IF Len(line) = 0 THEN [r1 EXCEPT !.i = @ + 1]
            ELSE IF numFaceVertices < 3 THEN [r1 EXCEPT !.i = @ + 1]
            ELSE IF Len(ints) - 1 < numFaceVertices THEN [r1 EXCEPT !.at = "return_false"]
            ELSE [r1 EXCEPT !.i = @ + 1,
                            !.triangles_out =
                                @ \o Triangulate(SubSeq(ints, 2, numFaceVertices + 1))]

\* binary: the width of the count prefix, 0 for a count type readPLY does not read
CountTypeSize(count_type_str) ==
    IF count_type_str \in {"uchar", "uint8"} THEN 1
    ELSE IF count_type_str \in {"ushort", "uint16"} THEN 2
    ELSE IF count_type_str \in {"uint", "uint32"} THEN 4
    ELSE 0

\* binary: numFaceVertices from the count prefix read (value: most significant first);
\* the uint32_t count is converted to int
CountValue(count_type_str, value) ==
    IF CountTypeSize(count_type_str) = 4 THEN ToInt32(value) ELSE Unsigned(value)

\* mutant: every index of a degenerate face is skipped as a 4-byte int
SkipItemSize_always4(list_item_type_str) == 4

\* binary: the width by which one index of a degenerate face is skipped, 0 for an item
\* type the skip does not know
SkipItemSize(list_item_type_str) ==
    IF list_item_type_str \in {"int8", "uint8", "char", "uchar"} THEN 1
    ELSE IF list_item_type_str \in {"int16", "uint16", "short", "ushort"} THEN 2
    ELSE IF list_item_type_str \in {"int32", "uint32", "int", "uint"} THEN 4
    ELSE 0

\* binary: the width with which one index of a face of 3 or more is read, 0 for an item
\* type the read does not know
ReadItemSize(list_item_type_str) ==
    IF list_item_type_str \in {"int", "int32", "uint", "uint32"} THEN 4
    ELSE IF list_item_type_str \in {"short", "int16", "ushort", "uint16"} THEN 2
    ELSE IF list_item_type_str \in {"uchar", "uint8"} THEN 1
    ELSE 0

\* binary: the int an index read as list_item_type_str becomes
IndexValue(list_item_type_str, value) ==
    IF list_item_type_str \in {"int", "int32", "uint", "uint32"} THEN ToInt32(value)
    ELSE IF list_item_type_str \in {"short", "int16"} THEN ToInt16(value)
    ELSE Unsigned(value)

\* binary: n indices from cursor p, [ok, indices, pos]
RECURSIVE BinaryIndices(_, _, _, _, _, _)
BinaryIndices(n, item, bytes, p, fileLE, sysLE) ==
    IF n <= 0 THEN [ok |-> TRUE, indices |-> <<>>, pos |-> p]
    ELSE IF ReadItemSize(item) = 0 THEN [ok |-> FALSE, indices |-> <<>>, pos |-> p]
    ELSE LET got == readBinary(bytes, p, ReadItemSize(item), fileLE, sysLE)
         IN IF ~got.ok THEN [ok |-> FALSE, indices |-> <<>>, pos |-> got.pos]
            ELSE LET rest == BinaryIndices(n - 1, item, bytes, got.pos, fileLE, sysLE)
                 IN [ok |-> rest.ok,
                     indices |-> <<IndexValue(item, got.value)>> \o rest.indices,
                     pos |-> rest.pos]

\* binary: the degenerate face of numFaceVertices < 3 indices is skipped
BinarySkipFace(r, numFaceVertices, p) ==
    IF numFaceVertices <= 0 THEN [r EXCEPT !.pos = p, !.i = @ + 1]
    ELSE IF SkipItemSize(r.faceProperty.list_item_type_str) = 0
         THEN [r EXCEPT !.pos = p, !.at = "return_false"]
    ELSE [r EXCEPT !.i = @ + 1,
                   !.pos = seekg(p, numFaceVertices * SkipItemSize(r.faceProperty.list_item_type_str))]

\* binary: face i from the bytes at the cursor
BinaryFace(r, bytes, sysLE) ==
    LET ct == r.faceProperty.count_type_str
        cnt == readBinary(bytes, r.pos, CountTypeSize(ct), r.plyFileIsLittleEndian, sysLE)
    IN IF CountTypeSize(ct) = 0 \/ ~cnt.ok THEN [r EXCEPT !.at = "return_false"]
       ELSE LET numFaceVertices == CountValue(ct, cnt.value)
            IN IF numFaceVertices < 3 THEN BinarySkipFace(r, numFaceVertices, cnt.pos)
               ELSE LET got == BinaryIndices(numFaceVertices, r.faceProperty.list_item_type_str,
                                             bytes, cnt.pos, r.plyFileIsLittleEndian, sysLE)
                    IN IF ~got.ok THEN [r EXCEPT !.at = "return_false", !.pos = got.pos]
                       ELSE [r EXCEPT !.pos = got.pos, !.i = @ + 1,
                                      !.triangles_out = @ \o Triangulate(got.indices)]

\* one iteration of the face loop
ReadFace(r, body, sysLE) ==
    IF r.isASCII THEN AsciiFace(r, body) ELSE BinaryFace(r, body, sysLE)

\* the face loop is over: return true
ReadReturn(r) == [r EXCEPT !.at = "return_true"]

\* readPLY's next step from frame r, on a file whose stream was opened
readPLYStep(r, f, sysLE) ==
    IF r.at = "header" /\ ~r.headerEnd /\ r.hline < Len(f.hdr)
         THEN HeaderLine(r, f.hdr[r.hline + 1])
    ELSE IF r.at = "header" THEN HeaderCheck(r)
    ELSE IF r.at = "vertices" /\ r.i < r.vertexCount THEN ReadVertex(r, f.body, sysLE)
    ELSE IF r.at = "vertices" THEN MeshFlags(r)
    ELSE IF r.at = "faces" /\ r.i < r.faceCount THEN ReadFace(r, f.body, sysLE)
    ELSE IF r.at = "faces" THEN ReadReturn(r)
    ELSE r

\* readPLY run to its return on an opened file
RECURSIVE readPLYFrom(_, _, _)
readPLYFrom(r, f, sysLE) ==
    IF r.at \in {"return_true", "return_false"} THEN r
    ELSE readPLYFrom(readPLYStep(r, f, sysLE), f, sysLE)

readPLY(f, sysLE) == readPLYFrom(readPLYEntry, f, sysLE)

(***************************************************************************)
(* writeOBJ.                                                               *)
(***************************************************************************)
\* operator<<(float) in the classic locale (6 significant digits) for the values the
\* model's inputs produce; any other bit pattern is rendered by its bytes
FmtFloat(f) ==
    IF \E n \in 0..9 : f = F32Div(n, 1) THEN ToString(CHOOSE n \in 0..9 : f = F32Div(n, 1))
    ELSE IF f = F32Div(5, 10) THEN "0.5"
    ELSE IF f = F32Div(1, 10) THEN "0.1"
    ELSE IF f = F32Div(1, 255) THEN "0.00392157"
    ELSE IF f = F32Div(2, 255) THEN "0.00784314"
    ELSE IF f = F32Div(44, 255) THEN "0.172549"
    ELSE IF f = F32Div(128, 255) THEN "0.501961"
    ELSE "f32:" \o ToString(f)

\* the header comment lines and the blank line after them
ObjHeader(vertices, triangles, has_normals, has_colors, has_texCoords) ==
    << <<"#", "Converted", "from", "PLY", "to", "OBJ", "by", "PLYtoOBJ_Converter">>,
       <<"#", "Vertices:", ToString(Len(vertices))>>,
       <<"#", "Faces:", ToString(Len(triangles))>> >>
    \o (IF has_normals THEN << <<"#", "Has", "Normals">> >> ELSE <<>>)
    \o (IF has_colors THEN << <<"#", "Has", "Vertex", "Colors">> >> ELSE <<>>)
    \o (IF has_texCoords THEN << <<"#", "Has", "Texture", "Coordinates">> >> ELSE <<>>)
    \o << <<>> >>

\* the v line of one vertex
ObjVLine(v_data) ==
    <<"v", FmtFloat(v_data.position[1]), FmtFloat(v_data.position[2]), FmtFloat(v_data.position[3])>>
    \o (IF v_data.has_color
        THEN <<FmtFloat(v_data.color[1]), FmtFloat(v_data.color[2]), FmtFloat(v_data.color[3])>>
        ELSE <<>>)

\* the vt line of one vertex
ObjVtLine(v_data) ==
    IF v_data.has_texCoord
    THEN <<"vt", FmtFloat(v_data.texCoord[1]), FmtFloat(v_data.texCoord[2])>>
    ELSE <<"vt", "0", "0">>

\* the vn line of one vertex
ObjVnLine(v_data) ==
    IF v_data.has_normal
    THEN <<"vn", FmtFloat(v_data.normal[1]), FmtFloat(v_data.normal[2]), FmtFloat(v_data.normal[3])>>
    ELSE <<"vn", "0", "0", "1">>

\* mutant: without texture coordinates no empty slot is left before the normal index
ObjRef_noEmptySlot(v_idx, has_normals, has_texCoords) ==
    ToString(v_idx + 1)
    \o (IF has_texCoords THEN "/" \o ToString(v_idx + 1) ELSE "")
    \o (IF has_normals THEN "/" \o ToString(v_idx + 1) ELSE "")

\* one vertex reference of an f line, without the blank before it
ObjRef(v_idx, has_normals, has_texCoords) ==
    ToString(v_idx + 1)
    \o (IF has_texCoords THEN "/" \o ToString(v_idx + 1)
        ELSE IF has_normals THEN "/" ELSE "")
    \o (IF has_normals THEN "/" \o ToString(v_idx + 1) ELSE "")

\* the f line of one triangle
ObjFLine(tri, has_normals, has_texCoords) ==
    <<"f", ObjRef(tri.v0, has_normals, has_texCoords),
           ObjRef(tri.v1, has_normals, has_texCoords),
           ObjRef(tri.v2, has_normals, has_texCoords)>>

\* the texture-coordinate block: nothing without has_texCoords
ObjVtBlock(vertices, has_texCoords) ==
    IF has_texCoords
    THEN [k \in 1..Len(vertices) |-> ObjVtLine(vertices[k])] \o << <<>> >>
    ELSE <<>>

\* mutant: only the vertices that have a normal get a vn line
ObjVnBlock_onlyOwn(vertices, has_normals) ==
    IF has_normals
    THEN SelectSeq([k \in 1..Len(vertices) |-> ObjVnLine(vertices[k])],
                   LAMBDA l : l # <<"vn", "0", "0", "1">>) \o << <<>> >>
    ELSE <<>>

\* the normal block: nothing without has_normals
ObjVnBlock(vertices, has_normals) ==
    IF has_normals
    THEN [k \in 1..Len(vertices) |-> ObjVnLine(vertices[k])] \o << <<>> >>
    ELSE <<>>

\* everything writeOBJ writes to the opened file
writeOBJ(vertices, triangles, has_normals, has_colors, has_texCoords) ==
    ObjHeader(vertices, triangles, has_normals, has_colors, has_texCoords)
    \o [k \in 1..Len(vertices) |-> ObjVLine(vertices[k])] \o << <<>> >>
    \o ObjVtBlock(vertices, has_texCoords)
    \o ObjVnBlock(vertices, has_normals)
    \o [k \in 1..Len(triangles) |-> ObjFLine(triangles[k], has_normals, has_texCoords)]

(***************************************************************************)
(* The input files: a PLY file generated from a logical mesh.  The file is *)
(* written as the PLY format says (every property with the width of its    *)
(* declared type, every multi-byte value in the declared byte order).      *)
(***************************************************************************)
\* the PLY format's scalar widths
PlyTypeWidth(type) ==
    IF type \in {"char", "int8", "uchar", "uint8"} THEN 1
    ELSE IF type \in {"short", "int16", "ushort", "uint16"} THEN 2
    ELSE IF type \in {"double", "float64"} THEN 8
    ELSE 4

\* the bytes of the value n >= 0 stored as `type` in the given byte order
EncodeScalar(type, n, littleEndian) ==
    LET msb == IF type \in {"float", "float32"} THEN F32Div(n, 1)
               ELSE IF type \in {"double", "float64"} THEN F64OfInt(n)
               ELSE BytesOf(n, PlyTypeWidth(type))
    IN IF littleEndian THEN Reverse(msb) ELSE msb

\* vertex schemas: the declared properties <<type, name>> in order
Xyz(t) == << <<t, "x">>, <<t, "y">>, <<t, "z">> >>
Nrm(t) == << <<t, "nx">>, <<t, "ny">>, <<t, "nz">> >>
Rgb(t) == << <<t, "red">>, <<t, "green">>, <<t, "blue">> >>
VertexSchemas ==
    { Xyz("float"),
      Xyz("float") \o Nrm("float"),
      Xyz("float") \o Rgb("uchar"),
      Xyz("float") \o Rgb("uchar") \o << <<"uchar", "alpha">> >>,
      Xyz("float") \o << <<"float", "u">>, <<"float", "v">> >>,
      Xyz("float") \o Nrm("float") \o << <<"float32", "s">>, <<"float32", "t">> >>,
      << <<"float", "confidence">> >> \o Xyz("float") \o << <<"short", "flags">>, <<"double", "time">> >>,
      Xyz("float") \o << <<"uchar", "alpha">> >>,
      Xyz("double"),
      Xyz("float") \o Rgb("float"),
      Xyz("int") \o Rgb("char") }

\* the logical value of property k of vertex i (0-based)
LogicalValue(seed, i, k) == (seed + i + k) % 3

ValidFormats == {"ascii", "binary_little_endian", "binary_big_endian"}
BinaryFormats == {"binary_little_endian", "binary_big_endian"}
CountTypes == {"uchar", "uint8", "ushort", "uint16", "uint", "uint32", "int"}
ItemTypes == {"char", "int8", "uchar", "uint8", "short", "int16", "ushort", "uint16",
              "int", "int32", "uint", "uint32", "float"}
\* how the ASCII vertex lines are written: every token; only the first three; only the
\* first three on every line but the first; the last token a non-numeric word; the last
\* token out of range; every token 0.5
RowKinds == {"full", "short", "short1", "bad", "big", "dec"}

\* polygons: 0 1 .. n-1 for every n up to MaxPoly, and one triangle in another order
Poly(n) == [k \in 1..n |-> k - 1]
FaceShapes == {Poly(n) : n \in 0..MaxPoly} \cup {<<2, 0, 1>>}
FaceLists == UNION {[1..k -> FaceShapes] : k \in 0..MaxFaces}

BaseInput ==
    [argc |-> 3, exists |-> TRUE, fmt |-> "ascii", endHeader |-> TRUE,
     schema |-> Xyz("float"), nV |-> MaxVerts, seed |-> 0, rows |-> "full",
     ctype |-> "uchar", itype |-> "int", fname |-> "vertex_indices",
     faces |-> << <<0, 1, 2>> >>, trunc |-> 0, countHi |-> 0]

\* the header lines, each the sequence of its words
BuildHeader(in) ==
    << <<"ply">> >>
    \o (IF in.fmt = "" THEN <<>> ELSE << <<"format", in.fmt, "1.0">> >>)
    \o << <<"comment", "generated">>, <<"element", "vertex", in.nV>> >>
    \o [k \in 1..Len(in.schema) |-> <<"property", in.schema[k][1], in.schema[k][2]>>]
    \o << <<"element", "face", Len(in.faces)>> >>
    \o (IF in.fname = "" THEN <<>>
        ELSE << <<"property", "list", in.ctype, in.itype, in.fname>> >>)
    \o (IF in.endHeader THEN << <<"end_header">> >> ELSE <<>>)

\* the ASCII line of vertex i
AsciiRow(in, i) ==
    LET n == Len(in.schema)
        full == [k \in 1..n |-> <<"int", LogicalValue(in.seed, i, k)>>]
    IN IF in.rows = "short" \/ (in.rows = "short1" /\ i > 0) THEN Take(full, 3)
       ELSE IF in.rows = "bad" THEN [full EXCEPT ![n] = <<"bad", 0>>]
       ELSE IF in.rows = "big" THEN [full EXCEPT ![n] = <<"big", 0>>]
       ELSE IF in.rows = "dec" THEN [k \in 1..n |-> <<"dec", 5>>]
       ELSE full

\* the ASCII line of a face
AsciiFaceRow(face) == << <<"int", Len(face)>> >> \o [k \in 1..Len(face) |-> <<"int", face[k]>>]

\* the binary record of vertex i
BinaryRow(in, i, littleEndian) ==
    Flatten([k \in 1..Len(in.schema) |->
                EncodeScalar(in.schema[k][1], LogicalValue(in.seed, i, k), littleEndian)])

\* the count prefix of a face record: the number of indices, or, in a file whose 4-byte
\* counts are corrupt, that number with countHi in its most significant byte
CountPrefix(in, face, littleEndian) ==
    IF in.countHi > 0 /\ PlyTypeWidth(in.ctype) = 4
    THEN LET msb == <<in.countHi, 0, 0, Len(face)>>
         IN IF littleEndian THEN Reverse(msb) ELSE msb
    ELSE EncodeScalar(in.ctype, Len(face), littleEndian)

\* the binary record of a face
BinaryFaceRow(in, face, littleEndian) ==
    CountPrefix(in, face, littleEndian)
    \o Flatten([k \in 1..Len(face) |-> EncodeScalar(in.itype, face[k], littleEndian)])

\* the bytes of one vertex record and of one face record, by the PLY format
RECURSIVE SchemaWidth(_)
SchemaWidth(schema) ==
    IF schema = <<>> THEN 0 ELSE PlyTypeWidth(Head(schema)[1]) + SchemaWidth(Tail(schema))

FaceWidth(in, face) == PlyTypeWidth(in.ctype) + Len(face) * PlyTypeWidth(in.itype)

RECURSIVE FacesWidth(_, _)
FacesWidth(in, k) == IF k = 0 THEN 0 ELSE FacesWidth(in, k - 1) + FaceWidth(in, in.faces[k])

\* where vertex record i and face record k (0-based) start in the payload: a byte offset
\* in a binary file, a line number in an ASCII file
VertexOffset(in, i) == IF in.fmt \in BinaryFormats THEN i * SchemaWidth(in.schema) ELSE i
FaceOffset(in, k) ==
    IF in.fmt \in BinaryFormats THEN in.nV * SchemaWidth(in.schema) + FacesWidth(in, k)
    ELSE in.nV + k

\* the payload; a binary one without its last in.trunc bytes
BuildBody(in) ==
    IF in.fmt \in BinaryFormats
    THEN LET le == in.fmt = "binary_little_endian"
             whole == Flatten([i \in 1..in.nV |-> BinaryRow(in, i - 1, le)])
                      \o Flatten([j \in 1..Len(in.faces) |->
                                     BinaryFaceRow(in, in.faces[j], le)])
         IN Take(whole, Len(whole) - in.trunc)
    ELSE [i \in 1..in.nV |-> AsciiRow(in, i - 1)]
         \o [j \in 1..Len(in.faces) |-> AsciiFaceRow(in.faces[j])]

BuildFile(in) == [exists |-> in.exists, hdr |-> BuildHeader(in), body |-> BuildBody(in)]

\* the families of inputs
FaceInputs ==
    {[BaseInput EXCEPT !.fmt = f, !.faces = fs] : f \in ValidFormats, fs \in FaceLists}
TypeInputs ==
    {[BaseInput EXCEPT !.fmt = f, !.ctype = c, !.itype = t, !.faces = fs, !.nV = 1] :
        f \in BinaryFormats, c \in CountTypes, t \in ItemTypes,
        fs \in {<< <<0, 1>>, <<0, 1, 2, 3>> >>, << <<3, 1, 2>>, <<>>, <<7>> >>}}
SchemaInputs ==
    {[BaseInput EXCEPT !.fmt = f, !.schema = s, !.nV = n, !.seed = sd] :
        f \in BinaryFormats, s \in VertexSchemas, n \in 0..MaxVerts, sd \in 0..1}
    \cup
    {[BaseInput EXCEPT !.schema = s, !.nV = n, !.rows = rk] :
        s \in VertexSchemas, n \in 0..MaxVerts, rk \in RowKinds}
HeaderInputs ==
    {[BaseInput EXCEPT !.fmt = f, !.endHeader = e, !.fname = fn, !.faces = fs] :
        f \in ValidFormats \cup {"binary_mixed_endian", ""}, e \in BOOLEAN,
        fn \in {"vertex_indices", "vertex_index", "quality", ""},
        fs \in {<<>>, << <<0, 1, 2>> >>}}
MainInputs ==
    {[BaseInput EXCEPT !.argc = a, !.exists = x] : a \in {2, 3, 4}, x \in BOOLEAN}

\* binary files cut short by 1..MaxTrunc bytes: in a vertex property that is read or in
\* one that is skipped, in the indices of a face that is read or of one that is skipped
TruncInputs ==
    {[BaseInput EXCEPT !.fmt = f, !.schema = s, !.nV = 1, !.faces = fs, !.trunc = t] :
        f \in BinaryFormats,
        s \in {Xyz("float"),
               << <<"float", "confidence">> >> \o Xyz("float")
                  \o << <<"short", "flags">>, <<"double", "time">> >>},
        fs \in {<<>>, << <<0, 1, 2>> >>, << <<0, 1>> >>, << <<0, 1, 2>>, <<0, 1>> >>},
        t \in 1..MaxTrunc}
\* binary files whose 4-byte face counts have the most significant bit set
CountInputs ==
    {[BaseInput EXCEPT !.fmt = f, !.ctype = c, !.itype = t, !.faces = fs, !.nV = 1,
                       !.countHi = h] :
        f \in BinaryFormats, c \in {"uint", "uint32"}, t \in {"int", "uchar"},
        fs \in {<< <<0, 1, 2>> >>, << <<0, 1, 2, 3>>, <<0, 1, 2>> >>}, h \in {128, 255}}

Inputs ==
    FaceInputs \cup TypeInputs \cup SchemaInputs \cup HeaderInputs \cup MainInputs
    \cup TruncInputs \cup CountInputs

(***************************************************************************)
(* main.                                                                   *)
(***************************************************************************)
Init ==
    /\ input \in Inputs
    /\ argc = input.argc
    /\ file = BuildFile(input)
    /\ systemIsLE \in (IF input.fmt \in BinaryFormats THEN BOOLEAN ELSE {TRUE})
    /\ pc = "main"
    /\ rd = [readPLYEntry EXCEPT !.at = "open"]
    /\ read_success = FALSE
    /\ write_success = FALSE
    /\ objFile = [touched |-> FALSE, lines |-> <<>>]
    /\ exitCode = -1

\* main up to the call of readPLY: the usage exit
MainArgs ==
    /\ pc = "main"
    /\ IF argc # 3 THEN pc' = "exit" /\ exitCode' = 1
       ELSE pc' = "readPLY" /\ exitCode' = exitCode
    /\ UNCHANGED <<input, argc, file, systemIsLE, rd, read_success, write_success, objFile>>

\* readPLY opens the file
OpenPLY ==
    /\ pc = "readPLY" /\ rd.at = "open"
    /\ rd' = IF file.exists THEN readPLYEntry ELSE [rd EXCEPT !.at = "return_false"]
    /\ UNCHANGED <<input, argc, file, systemIsLE, pc, read_success, write_success, objFile, exitCode>>

\* readPLY: one header line
DoHeaderLine ==
    /\ pc = "readPLY" /\ rd.at = "header" /\ ~rd.headerEnd /\ rd.hline < Len(file.hdr)
    /\ rd' = HeaderLine(rd, file.hdr[rd.hline + 1])
    /\ UNCHANGED <<input, argc, file, systemIsLE, pc, read_success, write_success, objFile, exitCode>>

\* readPLY: the header loop is left
DoHeaderCheck ==
    /\ pc = "readPLY" /\ rd.at = "header" /\ (rd.headerEnd \/ rd.hline >= Len(file.hdr))
    /\ rd' = HeaderCheck(rd)
    /\ UNCHANGED <<input, argc, file, systemIsLE, pc, read_success, write_success, objFile, exitCode>>

\* readPLY: one vertex record
DoReadVertex ==
    /\ pc = "readPLY" /\ rd.at = "vertices" /\ rd.i < rd.vertexCount
    /\ rd' = ReadVertex(rd, file.body, systemIsLE)
    /\ UNCHANGED <<input, argc, file, systemIsLE, pc, read_success, write_success, objFile, exitCode>>

\* readPLY: the vertex loop is left
DoMeshFlags ==
    /\ pc = "readPLY" /\ rd.at = "vertices" /\ rd.i >= rd.vertexCount
    /\ rd' = MeshFlags(rd)
    /\ UNCHANGED <<input, argc, file, systemIsLE, pc, read_success, write_success, objFile, exitCode>>

\* readPLY: one face record
DoReadFace ==
    /\ pc = "readPLY" /\ rd.at = "faces" /\ rd.i < rd.faceCount
    /\ rd' = ReadFace(rd, file.body, systemIsLE)
    /\ UNCHANGED <<input, argc, file, systemIsLE, pc, read_success, write_success, objFile, exitCode>>

\* readPLY: the face loop is left
DoReadReturn ==
    /\ pc = "readPLY" /\ rd.at = "faces" /\ rd.i >= rd.faceCount
    /\ rd' = ReadReturn(rd)
    /\ UNCHANGED <<input, argc, file, systemIsLE, pc, read_success, write_success, objFile, exitCode>>

\* mutant: main goes on to writeOBJ whatever readPLY returned
MainAfterRead_noCheck ==
    /\ pc = "readPLY" /\ rd.at \in {"return_true", "return_false"}
    /\ read_success' = (rd.at = "return_true")
    /\ pc' = "writeOBJ" /\ exitCode' = exitCode
    /\ UNCHANGED <<input, argc, file, systemIsLE, rd, write_success, objFile>>

\* main after readPLY returned
MainAfterRead ==
    /\ pc = "readPLY" /\ rd.at \in {"return_true", "return_false"}
    /\ read_success' = (rd.at = "return_true")
    /\ IF rd.at = "return_true" THEN pc' = "writeOBJ" /\ exitCode' = exitCode
       ELSE pc' = "exit" /\ exitCode' = 1
    /\ UNCHANGED <<input, argc, file, systemIsLE, rd, write_success, objFile>>

\* main calls writeOBJ; the output file can be opened or not
MainWriteOBJ ==
    /\ pc = "writeOBJ"
    /\ \E is_open \in BOOLEAN :
         /\ write_success' = is_open
         /\ objFile' = IF is_open
                       THEN [touched |-> TRUE,
                             lines |-> writeOBJ(rd.vertices_out, rd.triangles_out,
                                                rd.file_has_normals, rd.file_has_colors,
                                                rd.file_has_texCoords)]
                       ELSE objFile
    /\ pc' = "after_write"
    /\ UNCHANGED <<input, argc, file, systemIsLE, rd, read_success, exitCode>>

\* main after writeOBJ returned
MainAfterWrite ==
    /\ pc = "after_write"
    /\ pc' = "exit"
    /\ exitCode' = IF write_success THEN 0 ELSE 1
    /\ UNCHANGED <<input, argc, file, systemIsLE, rd, read_success, write_success, objFile>>

Next ==
    \/ MainArgs
    \/ OpenPLY
    \/ DoHeaderLine
    \/ DoHeaderCheck
    \/ DoReadVertex
    \/ DoMeshFlags
    \/ DoReadFace
    \/ DoReadReturn
    \/ MainAfterRead
    \/ MainWriteOBJ
    \/ MainAfterWrite

Spec == Init /\ [][Next]_vars

(***************************************************************************)
(* Properties.                                                             *)
(***************************************************************************)
\* the header of the input is one readPLY accepts
GoodHeader(in) ==
    /\ in.argc = 3 /\ in.exists /\ in.endHeader
    /\ in.fmt \in ValidFormats
    /\ (Len(in.faces) > 0 => in.fname \in FaceIndexNames)

\* the payload of the input is the whole encoding of its logical mesh: no byte is
\* missing at its end and every face count is the number of indices that follow it
Intact(in) == in.trunc = 0 /\ in.countHi = 0

\* readPLY is about to decode face record k = rd.i (0-based) of the input, the cursor at
\* its first byte (line)
AtFace ==
    /\ pc = "readPLY" /\ rd.at = "faces" /\ rd.i < rd.faceCount
    /\ GoodHeader(input) /\ Intact(input)
    /\ rd.pos = FaceOffset(input, rd.i)

\* the fan of an n-gon: (i0, ij, ij+1) for j = 1..n-2
ExpectedFan(face) ==
    [j \in 1..(Len(face) - 2) |-> [v0 |-> face[1], v1 |-> face[j + 1], v2 |-> face[j + 2]]]

\* C1: every face record of n >= 3 indices that readPLY decodes (ASCII or binary) appends
\* exactly the n-2 triangles (i0, ij, ij+1), j = 1..n-2, in order, to the triangle array;
\* the triangle 0 1 2 gives (0,1,2), the quad 0 1 2 3 gives (0,1,2), (0,2,3)
C1_FanTriangulation ==
    [][(AtFace /\ Len(input.faces[rd.i + 1]) >= 3 /\ rd'.at # "return_false")
         => /\ rd'.triangles_out = rd.triangles_out \o ExpectedFan(input.faces[rd.i + 1])
            /\ Len(rd'.triangles_out) = Len(rd.triangles_out) + Len(input.faces[rd.i + 1]) - 2
            /\ \A k \in (Len(rd.triangles_out) + 1)..Len(rd'.triangles_out) :
                  rd'.triangles_out[k].v0 = input.faces[rd.i + 1][1]
            /\ (input.faces[rd.i + 1] = <<0, 1, 2, 3>>
                  => SubSeq(rd'.triangles_out, Len(rd.triangles_out) + 1, Len(rd'.triangles_out))
                       = <<[v0 |-> 0, v1 |-> 1, v2 |-> 2], [v0 |-> 0, v1 |-> 2, v2 |-> 3]>>)
      ]_vars

\* C1 witness: a binary file's second face, a pentagon, was decoded into three triangles
C1_Witness ==
    /\ pc = "readPLY" /\ rd.at = "faces" /\ rd.i = 2 /\ GoodHeader(input)
    /\ input.fmt = "binary_big_endian"
    /\ input.faces = << <<0, 1, 2, 3>>, <<0, 1, 2, 3, 4>> >>
    /\ Len(rd.triangles_out) = 5
    /\ rd.triangles_out[5] = [v0 |-> 0, v1 |-> 3, v2 |-> 4]

\* the vertex the ASCII line of vertex i (0-based) of an x, y, z file describes
ExpectedXyzVertex(in, i) ==
    [position |-> <<F32Div(LogicalValue(in.seed, i, 1), 1), F32Div(LogicalValue(in.seed, i, 2), 1),
                    F32Div(LogicalValue(in.seed, i, 3), 1)>>,
     normal |-> <<ZeroF, ZeroF, ZeroF>>, color |-> <<ZeroF, ZeroF, ZeroF>>,
     texCoord |-> <<ZeroF, ZeroF>>,
     has_normal |-> FALSE, has_color |-> FALSE, has_texCoord |-> FALSE]

\* an ASCII file of N vertices with float x, y, z only and M faces of 3 indices each
AsciiXyzTriangles(in) ==
    /\ GoodHeader(in) /\ in.fmt = "ascii" /\ in.rows = "full"
    /\ in.schema = <<<<"float", "x">>, <<"float", "y">>, <<"float", "z">>>>
    /\ \A j \in 1..Len(in.faces) : Len(in.faces[j]) = 3

\* C2: decoding an ASCII PLY of N vertices (float x, y, z only) and M faces of exactly 3
\* indices does not fail, and returns exactly the N vertices in file order, exactly the M
\* triangles in file order with the indices of the face lines, and all three flags false
C2_AsciiGeometry ==
    AsciiXyzTriangles(input) =>
        /\ rd.at # "return_false"
        /\ rd.at = "return_true" =>
             /\ Len(rd.vertices_out) = input.nV
             /\ \A i \in 1..input.nV : rd.vertices_out[i] = ExpectedXyzVertex(input, i - 1)
             /\ Len(rd.triangles_out) = Len(input.faces)
             /\ \A j \in 1..Len(input.faces) :
                   rd.triangles_out[j] = [v0 |-> input.faces[j][1], v1 |-> input.faces[j][2],
                                          v2 |-> input.faces[j][3]]
             /\ ~rd.file_has_normals /\ ~rd.file_has_colors /\ ~rd.file_has_texCoords

\* C2 witness: readPLY returned true on such a file of two different vertices and two
\* different triangles
C2_Witness ==
    /\ AsciiXyzTriangles(input) /\ rd.at = "return_true"
    /\ input.nV >= 2 /\ rd.vertices_out[1] # rd.vertices_out[2]
    /\ input.faces = << <<0, 1, 2>>, <<2, 0, 1>> >>
    /\ Len(rd.triangles_out) = 2

\* some declared vertex property has one of the names
Declares(in, names) == \E k \in 1..Len(in.schema) : in.schema[k][2] \in names

\* C3 (as claimed): after a successful readPLY each mesh-level flag equals the OR of the
\* per-vertex flag over the decoded vertices
C3_FlagsAreOrOfVertices ==
    (rd.at = "return_true" /\ Len(rd.vertices_out) > 0) =>
        /\ rd.file_has_normals = (\E k \in 1..Len(rd.vertices_out) : rd.vertices_out[k].has_normal)
        /\ rd.file_has_colors = (\E k \in 1..Len(rd.vertices_out) : rd.vertices_out[k].has_color)
        /\ rd.file_has_texCoords = (\E k \in 1..Len(rd.vertices_out) : rd.vertices_out[k].has_texCoord)

\* C3 (amended): after a successful readPLY each mesh-level flag is true exactly when the
\* header declared a vertex property of its group (nx ny nz / red green blue alpha /
\* u v s t texture_u texture_v) or some decoded vertex has the per-vertex flag
C3_FlagsAreDeclaredOrVertices ==
    rd.at = "return_true" =>
        /\ rd.file_has_normals =
             (Declares(input, {"nx", "ny", "nz"})
                \/ \E k \in 1..Len(rd.vertices_out) : rd.vertices_out[k].has_normal)
        /\ rd.file_has_colors =
             (Declares(input, {"red", "green", "blue", "alpha"})
                \/ \E k \in 1..Len(rd.vertices_out) : rd.vertices_out[k].has_color)
        /\ rd.file_has_texCoords =
             (Declares(input, {"u", "v", "s", "t", "texture_u", "texture_v"})
                \/ \E k \in 1..Len(rd.vertices_out) : rd.vertices_out[k].has_texCoord)

\* C3 witness: an ASCII file that declares nx ny nz, whose vertex lines carry x y z only,
\* was read: no vertex has a normal and hasNormals is set
C3_Witness ==
    /\ rd.at = "return_true" /\ input.fmt = "ascii" /\ input.rows = "short"
    /\ Declares(input, {"nx", "ny", "nz"})
    /\ Len(rd.vertices_out) = 2
    /\ \A k \in 1..Len(rd.vertices_out) : ~rd.vertices_out[k].has_normal
    /\ rd.file_has_normals

IntItemTypes == {"char", "int8", "uchar", "uint8", "short", "int16", "ushort", "uint16",
                 "int", "int32", "uint", "uint32"}

\* C4: in binary mode a face record with count 0, 1 or 2 (integer item type) appends no
\* triangle, consumes count width + count * item width bytes and leaves the cursor at the
\* first byte of the next face record
C4_DegenerateFaceSkipped ==
    [][(AtFace /\ ~rd.isASCII /\ Len(input.faces[rd.i + 1]) < 3
          /\ CountTypeSize(input.ctype) > 0 /\ input.itype \in IntItemTypes)
         => /\ rd'.at = "faces" /\ rd'.i = rd.i + 1
            /\ rd'.triangles_out = rd.triangles_out
            /\ rd'.pos = rd.pos + PlyTypeWidth(input.ctype)
                           + Len(input.faces[rd.i + 1]) * PlyTypeWidth(input.itype)
            /\ rd'.pos = FaceOffset(input, rd.i + 1)
      ]_vars

\* C4 witness: a binary file's degenerate first face (2 indices of 2 bytes) was skipped
\* and the quad after it decoded into its two triangles
C4_Witness ==
    /\ rd.at = "return_true" /\ ~rd.isASCII /\ GoodHeader(input)
    /\ input.faces = << <<0, 1>>, <<0, 1, 2, 3>> >>
    /\ input.itype = "ushort" /\ input.ctype = "uint"
    /\ rd.triangles_out = <<[v0 |-> 0, v1 |-> 1, v2 |-> 2], [v0 |-> 0, v1 |-> 2, v2 |-> 3]>>
    /\ rd.pos = Len(file.body)

\* the same logical mesh and header schema written in the other binary byte order
Mirror(in) ==
    [in EXCEPT !.fmt = IF @ = "binary_little_endian" THEN "binary_big_endian"
                       ELSE "binary_little_endian"]

\* a binary file with a count type and an integer item type of the PLY format
BinaryInput(in) ==
    /\ GoodHeader(in) /\ Intact(in) /\ in.fmt \in BinaryFormats
    /\ CountTypeSize(in.ctype) > 0 /\ in.itype \in IntItemTypes

\* C5 (as claimed): the little-endian and the big-endian encoding of the same logical mesh
\* under the same header schema both decode successfully, to the same vertices, triangles
\* and flags, on either host byte order
C5_ByteOrderInvariance ==
    (BinaryInput(input) /\ input.ctype = "uchar" /\ input.itype = "int"
       /\ pc = "readPLY" /\ rd.at \in {"return_true", "return_false"})
      => LET other == readPLY(BuildFile(Mirror(input)), systemIsLE)
         IN /\ rd.at = "return_true" /\ other.at = "return_true"
            /\ rd.vertices_out = other.vertices_out
            /\ rd.triangles_out = other.triangles_out
            /\ rd.file_has_normals = other.file_has_normals
            /\ rd.file_has_colors = other.file_has_colors
            /\ rd.file_has_texCoords = other.file_has_texCoords

\* the reference i+1 of the zero-based index i in the four flag cases
ExpectedRef(i, has_normals, has_texCoords) ==
    IF ~has_texCoords /\ ~has_normals THEN ToString(i + 1)
    ELSE IF has_texCoords /\ ~has_normals THEN ToString(i + 1) \o "/" \o ToString(i + 1)
    ELSE IF ~has_texCoords /\ has_normals THEN ToString(i + 1) \o "//" \o ToString(i + 1)
    ELSE ToString(i + 1) \o "/" \o ToString(i + 1) \o "/" \o ToString(i + 1)

\* the lines of the written document that start with the word w
LinesOf(w) == SelectSeq(objFile.lines, LAMBDA l : Len(l) > 0 /\ l[1] = w)

\* C6: writeOBJ emits exactly one f line per triangle, in triangle order, of three
\* references index+1, each of the form i, i/i, i//i or i/i/i as the flags say
C6_FaceLines ==
    objFile.touched =>
        /\ Len(LinesOf("f")) = Len(rd.triangles_out)
        /\ \A k \in 1..Len(rd.triangles_out) :
              LinesOf("f")[k] =
                 <<"f",
                   ExpectedRef(rd.triangles_out[k].v0, rd.file_has_normals, rd.file_has_texCoords),
                   ExpectedRef(rd.triangles_out[k].v1, rd.file_has_normals, rd.file_has_texCoords),
                   ExpectedRef(rd.triangles_out[k].v2, rd.file_has_normals, rd.file_has_texCoords)>>
        /\ SubSeq(objFile.lines, Len(objFile.lines) - Len(rd.triangles_out) + 1, Len(objFile.lines))
             = LinesOf("f")

\* C6 witness: a mesh with normals and without texture coordinates was written, its
\* triangle as i//i references
C6_Witness ==
    /\ objFile.touched /\ rd.file_has_normals /\ ~rd.file_has_texCoords
    /\ rd.triangles_out = <<[v0 |-> 0, v1 |-> 1, v2 |-> 2]>>
    /\ LinesOf("f") = << <<"f", "1//1", "2//2", "3//3">> >>

\* C7: with hasNormals one vn line per vertex in vertex order (its own normal, or 0 0 1);
\* with hasTexCoords one vt line per vertex in vertex order (its own texcoord, or 0 0);
\* without the flag no line of the block; so the vt (vn) lines number 0 or as many as
\* the v lines
C7_AttributeBlocks ==
    objFile.touched =>
        /\ Len(LinesOf("v")) = Len(rd.vertices_out)
        /\ Len(LinesOf("vn")) = IF rd.file_has_normals THEN Len(rd.vertices_out) ELSE 0
        /\ Len(LinesOf("vt")) = IF rd.file_has_texCoords THEN Len(rd.vertices_out) ELSE 0
        /\ \A k \in 1..Len(LinesOf("vn")) :
              LinesOf("vn")[k] =
                 IF rd.vertices_out[k].has_normal
                 THEN <<"vn", FmtFloat(rd.vertices_out[k].normal[1]),
                        FmtFloat(rd.vertices_out[k].normal[2]),
                        FmtFloat(rd.vertices_out[k].normal[3])>>
                 ELSE <<"vn", "0", "0", "1">>
        /\ \A k \in 1..Len(LinesOf("vt")) :
              LinesOf("vt")[k] =
                 IF rd.vertices_out[k].has_texCoord
                 THEN <<"vt", FmtFloat(rd.vertices_out[k].texCoord[1]),
                        FmtFloat(rd.vertices_out[k].texCoord[2])>>
                 ELSE <<"vt", "0", "0">>
        /\ Len(LinesOf("vn")) \in {0, Len(LinesOf("v"))}
        /\ Len(LinesOf("vt")) \in {0, Len(LinesOf("v"))}

\* C7 witness: a mesh was written whose first vertex has its own normal and texcoord and
\* whose second vertex has neither: the second vn line is 0 0 1, the second vt line 0 0
C7_Witness ==
    /\ objFile.touched /\ rd.file_has_normals /\ rd.file_has_texCoords
    /\ Len(rd.vertices_out) = 2
    /\ rd.vertices_out[1].has_normal /\ rd.vertices_out[1].has_texCoord
    /\ ~rd.vertices_out[2].has_normal /\ ~rd.vertices_out[2].has_texCoord
    /\ LinesOf("vn")[1] # <<"vn", "0", "0", "1">>
    /\ LinesOf("vn")[2] = <<"vn", "0", "0", "1">>
    /\ LinesOf("vt")[2] = <<"vt", "0", "0">>

\* C8: writeOBJ is called and the output file touched only after readPLY returned true;
\* when readPLY fails the output file is not touched and main returns non-zero; main
\* returns 0 only if readPLY and writeOBJ both returned true
C8_WriteOnlyAfterRead ==
    /\ (pc \in {"writeOBJ", "after_write"} \/ objFile.touched)
          => (rd.at = "return_true" /\ read_success)
    /\ (pc = "exit" /\ rd.at = "return_false") => (~objFile.touched /\ exitCode = 1)
    /\ (pc = "exit" /\ exitCode = 0) => (read_success /\ write_success /\ objFile.touched)
    /\ (pc = "exit") => exitCode \in {0, 1}

\* C8 witness: readPLY failed while decoding the payload and main returned 1 without
\* touching the output file
C8_Witness ==
    /\ pc = "exit" /\ rd.at = "return_false" /\ rd.headerEnd /\ Len(rd.vertices_out) > 0
    /\ exitCode = 1 /\ ~objFile.touched

\* the header (i) names an unsupported encoding, (ii) has no end_header line, or (iii)
\* declares faces without a vertex_indices / vertex_index property
BadHeader(in) ==
    \/ (in.fmt # "" /\ in.fmt \notin ValidFormats)
    \/ ~in.endHeader
    \/ (Len(in.faces) > 0 /\ in.fname \notin FaceIndexNames)

\* C9: on such a header readPLY returns false without decoding any vertex or face record
C9_BadHeaderFails ==
    BadHeader(input) =>
        /\ rd.at \in {"open", "header", "return_false"}
        /\ rd.vertices_out = <<>> /\ rd.triangles_out = <<>> /\ rd.pos = 0
        /\ (pc = "exit" /\ argc = 3) => (~read_success /\ exitCode = 1)

\* C9 witness: readPLY returned false on a header complete but for the index-list property
\* of its face element
C9_Witness ==
    /\ input.fmt \in ValidFormats /\ input.endHeader /\ input.exists
    /\ Len(input.faces) > 0 /\ input.fname = "quality"
    /\ rd.at = "return_false" /\ rd.headerEnd /\ rd.faceCount = 1

\* C10 (as claimed): in binary mode one vertex record consumes the sum of the widths of
\* its declared property types
C10_VertexRecordWidth ==
    [][(pc = "readPLY" /\ rd.at = "vertices" /\ rd.i < rd.vertexCount /\ ~rd.isASCII
          /\ GoodHeader(input) /\ Intact(input) /\ rd.pos = VertexOffset(input, rd.i))
         => (rd'.at = "vertices" /\ rd'.pos = rd.pos + SchemaWidth(input.schema))
      ]_vars

\* the field of the vertex v a recognised property name selects
Component(v, name) ==
    IF name = "x" THEN v.position[1]
    ELSE IF name = "y" THEN v.position[2]
    ELSE IF name = "z" THEN v.position[3]
    ELSE IF name = "nx" THEN v.normal[1]
    ELSE IF name = "ny" THEN v.normal[2]
    ELSE IF name = "nz" THEN v.normal[3]
    ELSE IF name = "red" THEN v.color[1]
    ELSE IF name = "green" THEN v.color[2]
    ELSE IF name = "blue" THEN v.color[3]
    ELSE IF name \in {"u", "texture_u", "s"} THEN v.texCoord[1]
    ELSE v.texCoord[2]

\* the names whose value readPLY keeps in a field of the vertex
StoredNames ==
    {"x", "y", "z", "nx", "ny", "nz", "red", "green", "blue"} \cup TexCoordNames

\* the value of a numeric token: n for the integer n, d/10 for the decimal 0.d
TokenValue(tok) == IF tok[1] = "int" THEN F32Div(tok[2], 1) ELSE F32Div(tok[2], 10)

\* readPLY is about to decode the ASCII line of vertex rd.i, a line of numeric tokens,
\* one for every declared property
AtAsciiVertex ==
    /\ pc = "readPLY" /\ rd.at = "vertices" /\ rd.i < rd.vertexCount /\ rd.isASCII
    /\ GoodHeader(input) /\ input.rows \in {"full", "dec"}
    /\ rd.pos = VertexOffset(input, rd.i)

\* C11 (as claimed): in ASCII mode every recognised vertex property with a numeric token
\* stores token/255 if it is a uchar/uint8 red, green or blue given as an integer, and the
\* floating-point value of its token for any other declared numeric type
C11_AsciiNumericTypes ==
    [][AtAsciiVertex
         => \A k \in 1..Len(input.schema) :
              LET type == input.schema[k][1]
                  name == input.schema[k][2]
                  tok == AsciiRow(input, rd.i)[k]
                  got == Component(rd'.vertices_out[rd.i + 1], name)
              IN name \in StoredNames
                   => IF name \in {"red", "green", "blue"} /\ type \in {"uchar", "uint8"}
                      THEN tok[1] = "int" => got = F32Div(tok[2], 255)
                      ELSE got = TokenValue(tok)
      ]_vars

\* C12 (as claimed): in binary mode a face record of n >= 3 indices is decoded by
\* reading its n indices for every item type the skip of a degenerate face accepts
\* (the 1-, 2- and 4-byte integers, char/int8 among them), and readPLY fails on a face
\* record only for an item type outside that set
C12_ReadSetIsSkipSet ==
    [][(AtFace /\ ~rd.isASCII /\ Len(input.faces[rd.i + 1]) >= 3
          /\ CountTypeSize(input.ctype) > 0)
         => /\ (SkipItemSize(input.itype) > 0) = (input.itype \in IntItemTypes)
            /\ IF input.itype \in IntItemTypes
               THEN /\ rd'.at = "faces" /\ rd'.i = rd.i + 1
                    /\ rd'.pos = rd.pos + FaceWidth(input, input.faces[rd.i + 1])
                    /\ rd'.triangles_out
                         = rd.triangles_out \o ExpectedFan(input.faces[rd.i + 1])
               ELSE rd'.at = "return_false"
      ]_vars

\* the number of bytes the header of the input declares for its payload
DeclaredBytes(in) == in.nV * SchemaWidth(in.schema) + FacesWidth(in, Len(in.faces))

\* a binary input whose stream ends before the last declared byte
Truncated(in) ==
    /\ GoodHeader(in) /\ in.fmt \in BinaryFormats /\ in.countHi = 0
    /\ Len(BuildBody(in)) < DeclaredBytes(in)

\* C13 (as claimed): in binary mode readPLY never returns success when the stream ends
\* before every byte of the declared vertex and face records (skipped properties and
\* degenerate faces included)
C13_TruncatedBinaryFails ==
    Truncated(input) => (rd.at # "return_true" /\ ~read_success)

\* readPLY is about to decode face record rd.i of a binary input with a 4-byte unsigned
\* count type, the cursor at the record's count prefix, no byte of the payload missing
AtUintCountFace ==
    /\ pc = "readPLY" /\ rd.at = "faces" /\ rd.i < rd.faceCount /\ ~rd.isASCII
    /\ GoodHeader(input) /\ input.trunc = 0
    /\ input.ctype \in {"uint", "uint32"} /\ ReadItemSize(input.itype) > 0
    /\ rd.pos = FaceOffset(input, rd.i)

\* C14 (as claimed): with count type uint/uint32 a face record whose unsigned count
\* prefix c is >= 3 is never handled as a degenerate face with zero index bytes skipped
\* (numFaceVertices < 3 after the conversion to int); when the payload holds its c
\* indices, 4 + c * item width bytes are consumed and c-2 triangles appended
C14_UintCountNotDegenerate ==
    [][(AtUintCountFace /\ (input.countHi > 0 \/ Len(input.faces[rd.i + 1]) >= 3))
         => /\ ~(rd'.at = "faces" /\ rd'.i = rd.i + 1 /\ rd'.pos = rd.pos + 4
                   /\ rd'.triangles_out = rd.triangles_out)
            /\ (input.countHi = 0
                  => /\ rd'.pos = rd.pos + 4 + Len(input.faces[rd.i + 1])
                                                * PlyTypeWidth(input.itype)
                     /\ Len(rd'.triangles_out)
                          = Len(rd.triangles_out) + Len(input.faces[rd.i + 1]) - 2)
      ]_vars

====
